---- MODULE Spec2Model ----
(***************************************************************************)
(* The Cardtrader stock-reconciliation scheduler of seeker_functions       *)
(* (checkCardtraderStock/__init__.py): one timer invocation selects the    *)
(* stalest user, scans that user's wishlist table item by item against the *)
(* blueprint catalog and the marketplace API, writes the changed rows back *)
(* with a MERGE update and finally upserts the user's freshness record.    *)
(*                                                                         *)
(* Time is counted in hours.  Prices are integer cents.  A stored property *)
(* that does not exist is NoVal ("absent" for the string-valued ones); a   *)
(* key of the local entity dict that was assigned Python's None is PyNone  *)
(* ("None").  entity.get(key) answers None for both.                       *)
(***************************************************************************)
EXTENDS Integers, Sequences, FiniteSets, TLC

VARIABLES
    clock,      \* wall clock in hours (datetime.now(pytz.utc))
    store,      \* table name -> (row key -> row): the user tables and the timestamps table
    config,     \* environment variables: [conn |-> BOOLEAN, key |-> BOOLEAN]
    mergeNull,  \* what the table store does with a None property of a MERGE: "ignore" | "clear"
    overlap,    \* whether the timer may fire while an invocation is still running
    world,      \* the catalog and the marketplace: the responses the marketplace may give,
                \* and, when fixed, the one outcome each wishlist row gets in every scan
    elapsed,    \* the durations a marketplace request may take, in tenths of a second,
                \* where the invocation's time.time() is followed; {} where it is not
    prev,       \* user id -> what the previous scan of that user left: "none" | "clean" | "dirty"
    inv         \* invocation -> its local state (the locals of main, and
                \* what the invocation has done so far)

vars == <<clock, store, config, mergeNull, overlap, world, elapsed, prev, inv>>

(***************************************************************************)
(* Bounds of the model.                                                    *)
(***************************************************************************)
\* how many times the clock advances (by ClockStep hours)
MaxAdvances == 1

(***************************************************************************)
(* Program constants.                                                      *)
(***************************************************************************)
CHECK_INTERVAL_HOURS == 24
\* 1.1 seconds, in tenths of a second
RATE_LIMIT_SECONDS == 11
\* start_time = time.time(), in tenths of a second since the epoch
StartTime == 1000
\* datetime.datetime.min, the last_checked of a never-checked user (hours)
DatetimeMin == -1000000

\* the clock advances in half check intervals
ClockStep == CHECK_INTERVAL_HOURS \div 2

\* get_user_id_from_table_name("userCheckTimestamps"): TIMESTAMPS_TABLE_NAME
\* starts with USER_TABLE_PREFIX, so list_tables() yields it as a user table
TIMESTAMPS_TABLE_NAME == "CheckTimestamps"
Users == {"u1", "u2"}
\* user_ids: the tables whose name starts with USER_TABLE_PREFIX, prefix removed
UserIds == Users \cup {TIMESTAMPS_TABLE_NAME}

Invocations == {"i1", "i2"}

NoVal == -1
PyNone == -2
NoUser == "nobody"

(***************************************************************************)
(* Timestamps as stored strings.  fmt says how the string is written:      *)
(* "offset" is isoformat() of an aware datetime (+00:00), "Z" ends in Z,   *)
(* "naive" has no zone, "bad" does not parse, "absent" is a record without *)
(* the CardtraderLastChecked property.                                     *)
(***************************************************************************)
NoTs == [fmt |-> "absent", t |-> 0]
BadTs == [fmt |-> "bad", t |-> 0]

\* now_utc.isoformat()
isoformat(t) == [fmt |-> "offset", t |-> t]

\* a parser that accepts the Z and the naive form only
fromisoformatNoOffset(s) ==
    IF s.fmt \in {"Z", "naive"}
    THEN [ok |-> TRUE, t |-> s.t]
    ELSE [ok |-> FALSE, t |-> 0]

\* datetime.fromisoformat(s.replace('Z', '+00:00')), localized when naive;
\* ok = FALSE is the ValueError branch (user_timestamps[pk] = None)
fromisoformat(s) ==
    IF s.fmt \in {"offset", "Z", "naive"}
    THEN [ok |-> TRUE, t |-> s.t]
    ELSE [ok |-> FALSE, t |-> 0]

\* a row of any table: the timestamp property and the three Cardtrader
\* properties, plus whether the language property is a string
Row(ts, stock, price, cid, lang) ==
    [ts |-> ts, stock |-> stock, price |-> price, cid |-> cid, lang |-> lang]

\* the entity addToSeeking creates: cardtrader_stock=False, no price, no id
AddedRow(lang) == Row(NoTs, "False", NoVal, NoVal, lang)

\* timestamp_entity: PartitionKey, RowKey, CardtraderLastChecked only
TimestampEntity(t) == Row(isoformat(t), "absent", NoVal, NoVal, "str")

(***************************************************************************)
(* Selection of the user to check (main, steps 5 and 6).                   *)
(***************************************************************************)
\* user_timestamps.get(user_id): the parsed timestamp, or None
UserTimestamp(snap, u) ==
    IF u \in DOMAIN snap /\ snap[u].ts.fmt # "absent"
    THEN fromisoformat(snap[u].ts)
    ELSE [ok |-> FALSE, t |-> 0]

check_threshold(now) == now - CHECK_INTERVAL_HOURS

\* the two branches that append to eligible_users
IsEligible(snap, u, now) ==
    LET lc == UserTimestamp(snap, u)
    IN  (~lc.ok) \/ lc.t < check_threshold(now)

\* a never-checked user sorted as if checked at hour 0
LastCheckedNeverLast(snap, u) ==
    LET lc == UserTimestamp(snap, u)
    IN  IF lc.ok THEN lc.t ELSE 0

\* 'last_checked': the parsed timestamp, datetime.min for a never-checked user
LastChecked(snap, u) ==
    LET lc == UserTimestamp(snap, u)
    IN  IF lc.ok THEN lc.t ELSE DatetimeMin

RECURSIVE EligibleUsers(_, _, _)
\* eligible_users, in the order of user_ids
EligibleUsers(order, snap, now) ==
    IF order = <<>> THEN <<>>
    ELSE LET u == Head(order)
             rest == EligibleUsers(Tail(order), snap, now)
         IN  IF IsEligible(snap, u, now)
             THEN <<[id |-> u, last_checked |-> LastChecked(snap, u)]>> \o rest
             ELSE rest

RECURSIVE InsertStable(_, _)
\* x goes after every element whose key is not larger (list.sort is stable)
InsertStable(x, s) ==
    IF s = <<>> THEN <<x>>
    ELSE IF Head(s).last_checked <= x.last_checked
         THEN <<Head(s)>> \o InsertStable(x, Tail(s))
         ELSE <<x>> \o s

RECURSIVE SortByLastChecked(_)
\* eligible_users.sort(key=lambda x: x['last_checked'])
SortByLastChecked(s) ==
    IF s = <<>> THEN <<>>
    ELSE InsertStable(s[Len(s)], SortByLastChecked(SubSeq(s, 1, Len(s) - 1)))

\* the first eligible user in enumeration order, eligible_users left unsorted
UserToCheckUnsorted(order, snap, now) ==
    LET el == EligibleUsers(order, snap, now)
    IN  IF el = <<>> THEN NoUser ELSE el[1].id

\* a selection that falls back to the first enumerated user
UserToCheckAlways(order, snap, now) ==
    LET el == SortByLastChecked(EligibleUsers(order, snap, now))
    IN  IF el = <<>> THEN order[1] ELSE el[1].id

\* user_id_to_check, or NoUser when eligible_users is empty
UserToCheck(order, snap, now) ==
    LET el == SortByLastChecked(EligibleUsers(order, snap, now))
    IN  IF el = <<>> THEN NoUser ELSE el[1].id

(***************************************************************************)
(* One wishlist item (main, step 11: the body of "for card in user_cards").*)
(***************************************************************************)
\* results of blueprints_table_client.query_entities: kind "error" (the query
\* raised), "none" (zero results), "match" (results[0], one or several); id is
\* results[0].get('id'), 0 when the field is missing or empty
ResolverError == [kind |-> "error", id |-> 0]
ResolverNone == [kind |-> "none", id |-> 0]
ResolverMatch(id) == [kind |-> "match", id |-> id]

BlueprintIds == {10}

\* what requests.get gives: kind "neterr" is a RequestException; otherwise a
\* response with a status code, whether response.json() decodes, and
\* data.get(str(blueprint_id)) as the sequence of the listings' price_cents
\* (NoVal: a listing without price_cents; <<>>: empty list or missing key)
Response(status, json, items) ==
    [kind |-> "response", status |-> status, json |-> json, items |-> items]
NetworkError == [kind |-> "neterr", status |-> 0, json |-> FALSE, items |-> <<>>]

Responses ==
    { Response(200, TRUE, <<>>), Response(200, TRUE, <<300>>),
      Response(200, TRUE, <<500, 300>>), Response(200, TRUE, <<NoVal>>),
      Response(200, TRUE, <<NoVal, 500>>), Response(200, FALSE, <<>>),
      Response(404, FALSE, <<>>), Response(429, FALSE, <<>>),
      Response(500, FALSE, <<>>), NetworkError }

RECURSIVE PricesPresent(_)
\* item['price_cents'] for item in items if 'price_cents' in item
PricesPresent(items) ==
    IF items = <<>> THEN <<>>
    ELSE IF Head(items) = NoVal THEN PricesPresent(Tail(items))
         ELSE <<Head(items)>> \o PricesPresent(Tail(items))

RECURSIVE SeqMin(_)
SeqMin(s) ==
    IF Len(s) = 1 THEN s[1]
    ELSE LET m == SeqMin(Tail(s)) IN IF s[1] <= m THEN s[1] ELSE m

OutOfStock == [stock |-> "False", price |-> PyNone]

\* an interpretation that takes every failure for stock at price 0
ParseResponseErrorInStock(r) ==
    IF r.status = 200 /\ r.json /\ Len(r.items) > 0 /\ PricesPresent(r.items) # <<>>
    THEN [stock |-> "True", price |-> SeqMin(PricesPresent(r.items))]
    ELSE IF r.status \in {200, 404} /\ (r.status = 404 \/ r.json)
    THEN OutOfStock
    ELSE [stock |-> "True", price |-> 0]

\* step iii: stock_status and low_price of a response other than 429
ParseResponse(r) ==
    IF r.status = 200
    THEN IF ~r.json THEN OutOfStock                       \* except ValueError
         ELSE IF Len(r.items) > 0
              THEN IF PricesPresent(r.items) = <<>>
                   THEN OutOfStock                        \* min() of nothing: ValueError
                   ELSE [stock |-> "True", price |-> SeqMin(PricesPresent(r.items))]
              ELSE OutOfStock
    ELSE OutOfStock                                       \* 404 and every other status

\* card.get(key): None for a missing key and for a key set to None
Get(v) == IF v = NoVal THEN PyNone ELSE v
GetStock(v) == IF v = "absent" THEN "None" ELSE v

\* what the handling of one card does: path names the branch taken, called
\* whether requests.get was called, attempted whether update_entity was
\* called, entity the card dict handed to it, next how the loop goes on
\* ("continue", "break", or "raise": an exception leaves main), bound whether
\* api_params is bound afterwards
Handled(path, called, attempted, entity, next, bound) ==
    [path |-> path, called |-> called, attempted |-> attempted,
     entity |-> entity, next |-> next, bound |-> bound]

\* the not-found branch writing on every visit
NotFoundBranchAlways(card, bound) ==
    LET e == [card EXCEPT !.stock = "False",
                          !.price = IF card.price # NoVal THEN PyNone ELSE NoVal,
                          !.cid = IF card.cid # NoVal THEN PyNone ELSE NoVal]
    IN  Handled("notfound", FALSE, TRUE, e, "continue", bound)

\* the not-found branch clearing the catalog id only
NotFoundBranchIdOnly(card, bound) ==
    LET e == [card EXCEPT !.cid = IF card.cid # NoVal THEN PyNone ELSE NoVal]
    IN  Handled("notfound", FALSE, card.cid # NoVal, e, "continue", bound)

\* len(results) == 0: lines 250-271
NotFoundBranch(card, bound) ==
    LET e == [card EXCEPT
                !.stock = "False",
                !.price = IF card.price # NoVal THEN PyNone ELSE NoVal,
                !.cid = IF card.cid # NoVal THEN PyNone ELSE NoVal]
        needs_update == card.stock # "False" \/ card.price # NoVal \/ card.cid # NoVal
    IN  Handled("notfound", FALSE, needs_update, e, "continue", bound)

\* step iv, lines 384-410: card['cardtrader_id'] was set to blueprint_id at
\* line 288, so current_blueprint_id is blueprint_id itself
CompareBranch(card, id, resp, bound) ==
    LET res == ParseResponse(resp)
        carded == [card EXCEPT !.cid = id]
        current_stock == GetStock(carded.stock)
        current_price == Get(carded.price)
        current_blueprint_id == Get(carded.cid)
        needs_update == \/ current_stock # res.stock
                        \/ current_price # res.price
                        \/ current_blueprint_id # id
        e == IF needs_update
             THEN [carded EXCEPT !.stock = res.stock, !.price = res.price]
             ELSE carded
    IN  Handled("compared", TRUE, needs_update, e, "continue", TRUE)

\* the market step taking a network error for an out-of-stock answer
MarketBranchNetErrorOutOfStock(card, id, resp, bound) ==
    IF card.lang # "str"
    THEN Handled("fielderr", FALSE, FALSE, card,
                 IF bound THEN "continue" ELSE "raise", bound)
    ELSE IF resp.kind = "neterr"
    THEN CompareBranch(card, id, Response(404, FALSE, <<>>), bound)
    ELSE IF resp.status = 429
    THEN Handled("ratelimit", TRUE, FALSE, card, "break", TRUE)
    ELSE CompareBranch(card, id, resp, bound)

\* the market step ending the loop on a 404 as on a 429
MarketBranchNotFoundBreaks(card, id, resp, bound) ==
    IF card.lang # "str"
    THEN Handled("fielderr", FALSE, FALSE, card,
                 IF bound THEN "continue" ELSE "raise", bound)
    ELSE IF resp.kind = "neterr"
    THEN Handled("neterr", TRUE, FALSE, card, "continue", TRUE)
    ELSE IF resp.status \in {404, 429}
    THEN Handled("ratelimit", TRUE, FALSE, card, "break", TRUE)
    ELSE CompareBranch(card, id, resp, bound)

\* "if blueprint_id:" lines 286-418
MarketBranch(card, id, resp, bound) ==
    IF card.lang # "str"
    THEN \* .lower() raises AttributeError before api_params is assigned; the
         \* handler at line 417 formats api_params
         Handled("fielderr", FALSE, FALSE, card,
                 IF bound THEN "continue" ELSE "raise", bound)
    ELSE IF resp.kind = "neterr"
    THEN Handled("neterr", TRUE, FALSE, card, "continue", TRUE)
    ELSE IF resp.status = 429
    THEN Handled("ratelimit", TRUE, FALSE, card, "break", TRUE)
    ELSE CompareBranch(card, id, resp, bound)

\* the whole loop body for one card
HandleCard(card, res, resp, bound) ==
    IF res.kind = "error"
    THEN Handled("reserr", FALSE, FALSE, card, "continue", bound)
    ELSE IF res.kind = "none"
    THEN NotFoundBranch(card, bound)
    ELSE IF res.id = 0
    THEN Handled("noid", FALSE, FALSE, card, "continue", bound)
    ELSE MarketBranch(card, res.id, resp, bound)

(***************************************************************************)
(* The table store.                                                        *)
(***************************************************************************)
MergeNumber(old, sent, mode) ==
    IF sent = NoVal THEN old
    ELSE IF sent = PyNone THEN (IF mode = "ignore" THEN old ELSE NoVal)
    ELSE sent

\* a merge that loses the price
MergeEntityDropsPrice(old, e, mode) ==
    [ts |-> IF e.ts.fmt = "absent" THEN old.ts ELSE e.ts,
     stock |-> IF e.stock = "absent" THEN old.stock ELSE e.stock,
     price |-> NoVal,
     cid |-> MergeNumber(old.cid, e.cid, mode),
     lang |-> e.lang]

\* update_entity(entity, mode=UpdateMode.MERGE) on an existing row: every
\* property of the entity replaces the stored one, the others stay; a
\* property whose value is None is left as stored ("ignore") or removed
\* ("clear"), whichever the store does
MergeEntity(old, e, mode) ==
    [ts |-> IF e.ts.fmt = "absent" THEN old.ts ELSE e.ts,
     stock |-> IF e.stock = "absent" THEN old.stock ELSE e.stock,
     price |-> MergeNumber(old.price, e.price, mode),
     cid |-> MergeNumber(old.cid, e.cid, mode),
     lang |-> e.lang]

\* list(table_client.list_entities()): the rows in key order
SortedKeys == <<"CheckTimestamps", "a", "b", "u1", "u2">>
RECURSIVE ListEntitiesFrom(_, _)
ListEntitiesFrom(keys, table) ==
    IF keys = <<>> THEN <<>>
    ELSE IF Head(keys) \in DOMAIN table
         THEN <<[key |-> Head(keys), row |-> table[Head(keys)]]>>
              \o ListEntitiesFrom(Tail(keys), table)
         ELSE ListEntitiesFrom(Tail(keys), table)
ListEntities(table) == ListEntitiesFrom(SortedKeys, table)

(***************************************************************************)
(* The catalog and the marketplace: the environment of a scan.             *)
(***************************************************************************)
NoResponse == [kind |-> "unused", status |-> 0, json |-> FALSE, items |-> <<>>]
Outcome(res, resp) == [res |-> res, resp |-> resp]

\* what the catalog and the marketplace may answer for a wishlist row
WishlistOutcomes(responses) ==
    { Outcome(ResolverError, NoResponse), Outcome(ResolverNone, NoResponse),
      Outcome(ResolverMatch(0), NoResponse) }
    \cup { Outcome(ResolverMatch(id), r) : id \in BlueprintIds, r \in responses }

\* a row of the timestamps table has no name property and its PartitionKey is
\* a user id: the catalog holds no card 'Unknown' in such a set
TimestampRowOutcomes ==
    { Outcome(ResolverError, NoResponse), Outcome(ResolverNone, NoResponse) }

FreeWorld(responses) == [fixed |-> FALSE, of |-> <<>>, responses |-> responses]
FixedWorld(of) == [fixed |-> TRUE, of |-> of, responses |-> {}]

\* the responses of the general specification: in stock, the out-of-stock
\* answers, the rate limit, a server error and a network error
CoreResponses ==
    { Response(200, TRUE, <<>>), Response(200, TRUE, <<500, 300>>),
      Response(404, FALSE, <<>>), Response(429, FALSE, <<>>),
      Response(500, FALSE, <<>>), NetworkError }

ItemOutcomes(table, key) ==
    IF table = TIMESTAMPS_TABLE_NAME
    THEN (IF world.fixed THEN {Outcome(ResolverNone, NoResponse)}
          ELSE TimestampRowOutcomes)
    ELSE (IF world.fixed THEN {world.of[key]} ELSE WishlistOutcomes(world.responses))

(***************************************************************************)
(* The locals of one invocation of main.                                   *)
(***************************************************************************)
NoLast ==
    [idx |-> 0, res |-> ResolverError, resp |-> NoResponse, path |-> "none",
     called |-> FALSE, attempted |-> FALSE, wok |-> FALSE,
     entity |-> AddedRow("str")]

Idle ==
    [pc |-> "idle", now |-> 0, user |-> NoUser, order |-> <<>>, snap |-> <<>>,
     cards |-> <<>>, i |-> 0, bound |-> FALSE, looped |-> FALSE,
     marked |-> FALSE, raised |-> FALSE, failed |-> FALSE, err |-> "none",
     rd |-> {}, calls |-> {}, wb |-> {}, tsw |-> {}, brk |-> 0, last |-> NoLast,
     time |-> StartTime, last_api_call_time |-> 0,
     call_start |-> NoVal, gap |-> NoVal, waited |-> 0]

Done(now) == [Idle EXCEPT !.pc = "done", !.now = now]

RECURSIVE SeqsOver(_)
\* the orders list_tables() may enumerate the tables in
SeqsOver(S) ==
    IF S = {} THEN {<<>>}
    ELSE UNION { { <<x>> \o s : s \in SeqsOver(S \ {x}) } : x \in S }
Orders == SeqsOver(UserIds)

Running(p) == inv[p].pc # "idle"

\* the timer fires: a new invocation starts when none is running, or, when
\* the schedule overlaps, beside the running one
MayStart(p) ==
    /\ inv[p].pc = "idle"
    /\ IF overlap
       THEN p = "i1" \/ Running("i1")
       ELSE p = "i1" /\ \A q \in Invocations : ~Running(q)

\* lines 61-65: no connection string
TickNoConnection(p) ==
    /\ MayStart(p)
    /\ ~config.conn
    /\ inv' = [inv EXCEPT ![p] = Done(clock)]
    /\ UNCHANGED <<clock, store, config, mergeNull, overlap, world, elapsed, prev>>

\* lines 67-133: the table service, the table clients, list_tables or the
\* listing of the timestamps table raises
TickStorageFailure(p) ==
    /\ MayStart(p)
    /\ config.conn
    /\ inv' = [inv EXCEPT ![p] = [Done(clock) EXCEPT !.err = "storage"]]
    /\ UNCHANGED <<clock, store, config, mergeNull, overlap, world, elapsed, prev>>

\* lines 53-156: the tick up to the selection of user_id_to_check
TickSelect(p) ==
    /\ MayStart(p)
    /\ config.conn
    /\ \E order \in Orders :
         LET snap == store[TIMESTAMPS_TABLE_NAME]
             sel == UserToCheck(order, snap, clock)
         IN  inv' = [inv EXCEPT ![p] =
                        IF sel = NoUser
                        THEN [Done(clock) EXCEPT !.snap = snap]
                        ELSE [Idle EXCEPT !.pc = "selected", !.now = clock,
                                          !.user = sel, !.order = order,
                                          !.snap = snap]]
    /\ UNCHANGED <<clock, store, config, mergeNull, overlap, world, elapsed, prev>>

\* lines 158-175: get_table_client raises; the timestamp is updated and main returns
OpenFails(p) ==
    /\ inv[p].pc = "selected"
    /\ inv' = [inv EXCEPT ![p].pc = "mark", ![p].order = <<>>, ![p].err = "open"]
    /\ UNCHANGED <<clock, store, config, mergeNull, overlap, world, elapsed, prev>>

\* a failed listing handled like a failed get_table_client
ListFailsMarks(p) ==
    /\ inv[p].pc = "selected"
    /\ inv' = [inv EXCEPT ![p].pc = "mark", ![p].order = <<>>, ![p].err = "list"]
    /\ UNCHANGED <<clock, store, config, mergeNull, overlap, world, elapsed, prev>>

\* lines 177-183: list_entities raises; main returns
ListFails(p) ==
    /\ inv[p].pc = "selected"
    /\ inv' = [inv EXCEPT ![p].pc = "done", ![p].order = <<>>, ![p].err = "list"]
    /\ UNCHANGED <<clock, store, config, mergeNull, overlap, world, elapsed, prev>>

\* the API key looked at before the emptiness of the list
StepAfterListKeyFirst(user_cards) ==
    IF ~config.key THEN "done"
    ELSE IF user_cards = <<>> THEN "mark"
    ELSE "loop"

\* lines 185-205: an empty list goes to the timestamp update and returns; then
\* a missing API key returns; otherwise the loop starts
StepAfterList(user_cards) ==
    IF user_cards = <<>> THEN "mark"
    ELSE IF ~config.key THEN "done"
    ELSE "loop"

\* lines 177-210: user_cards is read; an empty list goes to the timestamp
\* update, a missing API key returns, otherwise the loop starts
ListCards(p) ==
    /\ inv[p].pc = "selected"
    /\ LET s == inv[p]
           user_cards == ListEntities(store[s.user])
       IN  inv' = [inv EXCEPT ![p] =
                      [s EXCEPT !.order = <<>>,
                                !.rd = @ \cup {s.user},
                                !.cards = user_cards,
                                !.pc = StepAfterList(user_cards),
                                !.i = IF StepAfterList(user_cards) = "loop" THEN 1 ELSE 0,
                                !.looped = StepAfterList(user_cards) = "loop"]]
    /\ UNCHANGED <<clock, store, config, mergeNull, overlap, world, elapsed, prev>>

\* what a scan of a real user's wishlist leaves for the next scan to compare with
PrevAfter(s, failed) ==
    IF world.fixed /\ s.user \in Users
    THEN [prev EXCEPT ![s.user] = IF failed THEN "dirty" ELSE "clean"]
    ELSE prev

\* the loop leaving main on a break
AfterCardBreakReturns(s, h) ==
    IF h.next = "raise" THEN "done"
    ELSE IF h.next = "break" THEN "done"
    ELSE IF s.i = Len(s.cards) THEN "mark"
    ELSE "loop"

\* where the loop goes after a card: on to the next card, to step 12 after
\* the last card or a break, out of main when the handler raised
AfterCard(s, h) ==
    IF h.next = "raise" THEN "done"
    ELSE IF h.next = "break" THEN "mark"
    ELSE IF s.i = Len(s.cards) THEN "mark"
    ELSE "loop"

\* lines 290-297 and 320-323: the rate limit and the request, for a card that
\* reaches the market step; d is how long requests.get takes.  time.sleep
\* sleeps for wait_time; last_api_call_time is assigned after requests.get
\* returned a response
Timing(s, h, d) ==
    IF elapsed = {} \/ h.path \in {"reserr", "notfound", "noid"} THEN s
    ELSE LET current_time == s.time
             time_since_last_call == current_time - s.last_api_call_time
             wait_time == IF time_since_last_call < RATE_LIMIT_SECONDS
                          THEN RATE_LIMIT_SECONDS - time_since_last_call
                          ELSE 0
             start == current_time + wait_time
         IN  IF ~h.called
             THEN [s EXCEPT !.time = start]
             ELSE [s EXCEPT
                     !.time = start + d,
                     !.last_api_call_time = IF h.path = "neterr" THEN @ ELSE start + d,
                     !.call_start = start,
                     !.gap = IF s.call_start = NoVal THEN NoVal ELSE start - s.call_start,
                     !.waited = wait_time]

\* lines 212-418: one iteration of "for card in user_cards"
ProcessItem(p) ==
    /\ inv[p].pc = "loop"
    /\ LET s == inv[p]
           c == s.cards[s.i]
       IN  \E o \in ItemOutcomes(s.user, c.key) :
             LET h == HandleCard(c.row, o.res, o.resp, s.bound)
             IN  \E wok \in (IF h.attempted THEN BOOLEAN ELSE {FALSE}),
                    d \in (IF h.called /\ elapsed # {} THEN elapsed ELSE {0}) :
                   LET written == h.attempted /\ wok /\ c.key \in DOMAIN store[s.user]
                       pc2 == AfterCard(s, h)
                       failed == world.fixed /\ (s.failed \/ (h.attempted /\ ~written))
                   IN  /\ store' = IF written
                                   THEN [store EXCEPT ![s.user][c.key] =
                                            MergeEntity(@, h.entity, mergeNull)]
                                   ELSE store
                       /\ inv' = [inv EXCEPT ![p] =
                             [Timing(s, h, d) EXCEPT
                                !.pc = pc2,
                                !.i = IF pc2 = "loop" THEN s.i + 1 ELSE s.i,
                                !.bound = h.bound,
                                !.raised = (h.next = "raise"),
                                !.failed = failed,
                                !.calls = IF h.called THEN @ \cup {s.i} ELSE @,
                                !.wb = IF h.attempted THEN @ \cup {s.i} ELSE @,
                                !.tsw = IF written /\ s.user = TIMESTAMPS_TABLE_NAME
                                        THEN @ \cup {c.key} ELSE @,
                                !.brk = IF h.next = "break" THEN s.i ELSE @,
                                !.last = [idx |-> s.i, res |-> o.res, resp |-> o.resp,
                                          path |-> h.path, called |-> h.called,
                                          attempted |-> h.attempted, wok |-> written,
                                          entity |-> h.entity]]]
                       /\ prev' = IF pc2 = "done" THEN PrevAfter(s, failed) ELSE prev
    /\ UNCHANGED <<clock, config, mergeNull, overlap, world, elapsed>>

\* upsert_entity(timestamp_entity, mode=UpdateMode.REPLACE) at lines 165-174,
\* 188-197 and 421-430; a failure is logged
Mark(p) ==
    /\ inv[p].pc = "mark"
    /\ LET s == inv[p]
       IN  \E ok \in BOOLEAN :
             /\ store' = IF ok
                         THEN [store EXCEPT ![TIMESTAMPS_TABLE_NAME] =
                                  (s.user :> TimestampEntity(s.now)) @@ @]
                         ELSE store
             /\ inv' = [inv EXCEPT ![p] =
                          [s EXCEPT !.pc = "done", !.marked = TRUE, !.last = NoLast,
                                    !.tsw = IF ok THEN @ \cup {s.user} ELSE @]]
             /\ prev' = IF s.looped THEN PrevAfter(s, s.failed) ELSE prev
    /\ UNCHANGED <<clock, config, mergeNull, overlap, world, elapsed>>

\* main returns (or the exception leaves it): the locals are gone
Return(p) ==
    /\ inv[p].pc = "done"
    /\ inv' = [inv EXCEPT ![p] = Idle]
    /\ UNCHANGED <<clock, store, config, mergeNull, overlap, world, elapsed, prev>>

\* time passes between the timer's ticks (and during a run when ticks overlap)
AdvanceClock ==
    /\ clock + ClockStep <= MaxAdvances * ClockStep
    /\ overlap \/ \A q \in Invocations : ~Running(q)
    /\ clock' = clock + ClockStep
    /\ UNCHANGED <<store, config, mergeNull, overlap, world, elapsed, prev, inv>>

Next ==
    \/ \E p \in Invocations :
         \/ TickNoConnection(p)
         \/ TickStorageFailure(p)
         \/ TickSelect(p)
         \/ OpenFails(p)
         \/ ListFails(p)
         \/ ListCards(p)
         \/ ProcessItem(p)
         \/ Mark(p)
         \/ Return(p)
    \/ AdvanceClock

(***************************************************************************)
(* Initial states.                                                         *)
(***************************************************************************)
\* a row a scan wrote earlier: in stock at 500 cents under blueprint 10
InStockRow == Row(NoTs, "True", 500, 10, "str")

OldTs == [fmt |-> "Z", t |-> 0 - 36]
RecentTs == [fmt |-> "offset", t |-> 0 - 12]
FreshRow(ts) == Row(ts, "absent", NoVal, NoVal, "str")

\* the timestamps table: a record per user id, NoTs standing for no record
TimestampTable(t1, t2, t3) ==
    LET f == ("u1" :> t1) @@ ("u2" :> t2) @@ (TIMESTAMPS_TABLE_NAME :> t3)
    IN  [u \in {v \in UserIds : f[v] # NoTs} |-> FreshRow(f[u])]

TimestampTables ==
    { TimestampTable(NoTs, NoTs, NoTs),
      TimestampTable(BadTs, OldTs, NoTs),
      TimestampTable(OldTs, RecentTs, OldTs),
      TimestampTable(RecentTs, NoTs, RecentTs),
      TimestampTable(RecentTs, RecentTs, NoTs) }

WishlistTables ==
    { ("a" :> ra) @@ ("b" :> AddedRow("str")) :
        ra \in {AddedRow("str"), AddedRow("num"), InStockRow} }

InitStores ==
    { ("u1" :> w) @@ ("u2" :> <<>>) @@ (TIMESTAMPS_TABLE_NAME :> t) :
        w \in WishlistTables, t \in TimestampTables }

Configs == { [conn |-> TRUE, key |-> TRUE], [conn |-> TRUE, key |-> FALSE],
             [conn |-> FALSE, key |-> TRUE] }

InitCommon ==
    /\ clock = 0
    /\ elapsed = {}
    /\ mergeNull \in {"ignore", "clear"}
    /\ prev = [u \in UserIds |-> "none"]
    /\ inv = [p \in Invocations |-> Idle]

Init ==
    /\ InitCommon
    /\ store \in InitStores
    /\ config \in Configs
    /\ overlap = FALSE
    /\ world = FreeWorld(CoreResponses)

Spec == Init /\ [][Next]_vars

(***************************************************************************)
(* A fixed catalog and marketplace: every wishlist row gets the same       *)
(* resolver result and the same response in every scan.                    *)
(***************************************************************************)
FixedOutcomes ==
    { Outcome(ResolverNone, NoResponse),
      Outcome(ResolverMatch(10), Response(200, TRUE, <<>>)),
      Outcome(ResolverMatch(10), Response(200, TRUE, <<500, 300>>)),
      Outcome(ResolverMatch(10), Response(429, FALSE, <<>>)) }

FixedWorlds ==
    { FixedWorld(("a" :> oa) @@ ("b" :> ob)) :
        oa \in FixedOutcomes,
        ob \in { Outcome(ResolverMatch(10), Response(200, TRUE, <<>>)),
                 Outcome(ResolverMatch(10), Response(200, TRUE, <<500, 300>>)) } }

FixedStores ==
    { ("u1" :> w) @@ ("u2" :> <<>>) @@ (TIMESTAMPS_TABLE_NAME :> t) :
        w \in WishlistTables,
        t \in { TimestampTable(NoTs, NoTs, NoTs), TimestampTable(OldTs, RecentTs, OldTs) } }

InitFixed ==
    /\ InitCommon
    /\ store \in FixedStores
    /\ config \in Configs
    /\ overlap = FALSE
    /\ world \in FixedWorlds

SpecFixed == InitFixed /\ [][Next]_vars

(***************************************************************************)
(* Vocabulary of the properties.                                           *)
(***************************************************************************)
\* never checked: no record, no timestamp property, or an unparseable one
NeverChecked(snap, u) == ~UserTimestamp(snap, u).ok

\* a parseable timestamp more recent than the tick's start minus the interval
Recent(snap, u, now) ==
    LET lc == UserTimestamp(snap, u)
    IN  lc.ok /\ lc.t > check_threshold(now)

Pos(order, u) == CHOOSE i \in 1..Len(order) : order[i] = u

IsNull(v) == v \in {NoVal, PyNone}

\* the step is one iteration of the per-item loop of invocation p
LoopStep(p) == inv[p].pc = "loop" /\ inv'[p] # inv[p]

(***************************************************************************)
(* Selection.                                                              *)
(***************************************************************************)
\* C1: during a tick, a user whose timestamp in the tick's snapshot parses
\* and is more recent than the tick's start minus CHECK_INTERVAL_HOURS is not
\* the selected user, its wishlist table is not read, and its freshness
\* record is not written by that tick.
C1_RecentUserUntouched ==
    \A p \in Invocations : \A u \in UserIds :
        (Running(p) /\ Recent(inv[p].snap, u, inv[p].now)) =>
            /\ inv[p].user # u
            /\ u \notin inv[p].rd
            /\ u \notin inv[p].tsw

\* C2: when a tick has selected a user and some enumerated user is never
\* checked (no record, no timestamp, or an unparseable one), the selected
\* user is a never-checked one.
C2_NeverCheckedFirst ==
    \A p \in Invocations :
        (inv[p].user # NoUser /\ \E u \in UserIds : NeverChecked(inv[p].snap, u))
            => NeverChecked(inv[p].snap, inv[p].user)

\* a never-checked user was selected while a user with an old, parseable
\* timestamp was eligible too
C2_Witness ==
    \E p \in Invocations :
        /\ inv[p].pc = "selected"
        /\ NeverChecked(inv[p].snap, inv[p].user)
        /\ \E v \in UserIds : /\ ~NeverChecked(inv[p].snap, v)
                              /\ IsEligible(inv[p].snap, v, inv[p].now)

\* C3: the selected user is eligible and has the smallest last-checked time
\* of the eligible users (datetime.min for the never-checked); among the
\* eligible users sharing that time it is the first in the enumeration, so
\* the enumeration and the snapshot determine the selection.
C3_SmallestTimestampFirst ==
    \A p \in Invocations :
        inv[p].pc = "selected" =>
            LET s == inv[p]
                u == s.user
            IN  /\ IsEligible(s.snap, u, s.now)
                /\ \A v \in UserIds :
                     IsEligible(s.snap, v, s.now) =>
                        /\ LastChecked(s.snap, u) <= LastChecked(s.snap, v)
                        /\ LastChecked(s.snap, u) = LastChecked(s.snap, v)
                              => Pos(s.order, u) <= Pos(s.order, v)

\* the selected user ties with another eligible user and comes after a
\* third, later-checked eligible user in the enumeration
C3_Witness ==
    \E p \in Invocations :
        LET s == inv[p]
        IN  /\ s.pc = "selected"
            /\ \E v, w \in UserIds \ {s.user} :
                 /\ IsEligible(s.snap, v, s.now)
                 /\ LastChecked(s.snap, v) = LastChecked(s.snap, s.user)
                 /\ IsEligible(s.snap, w, s.now)
                 /\ LastChecked(s.snap, w) > LastChecked(s.snap, s.user)
                 /\ Pos(s.order, w) < Pos(s.order, s.user)

\* C4: an invocation reads the wishlist table of its selected user only and
\* writes at most one freshness record, the selected user's.
C4_OneUserPerInvocation ==
    \A p \in Invocations :
        /\ inv[p].rd \subseteq {inv[p].user}
        /\ inv[p].tsw \subseteq {inv[p].user}

(***************************************************************************)
(* The scan of the selected user's wishlist.                               *)
(***************************************************************************)
\* C5: an invocation whose per-item loop has started reaches the freshness
\* upsert of its user before it ends, whatever happened to the items.
C5_LoopEndsInUpsert ==
    \A p \in Invocations :
        (inv[p].looped /\ inv[p].pc = "done") => inv[p].marked

\* C6: a 429 answer for an item ends the loop: no write-back is attempted for
\* that item, no marketplace call and no write-back is made for a later item,
\* the invocation goes on to the freshness upsert and ends without raising.
C6_RateLimitStopsScan ==
    \A p \in Invocations :
        LET s == inv[p]
        IN  /\ (s.last.called /\ s.last.resp.kind = "response"
                              /\ s.last.resp.status = 429)
                  => s.brk = s.last.idx /\ ~s.last.attempted
            /\ s.brk # 0 =>
                  /\ s.brk \notin s.wb
                  /\ \A j \in s.calls \cup s.wb : j <= s.brk
                  /\ s.pc \in {"mark", "done"}
                  /\ s.pc = "done" => s.marked /\ ~s.raised

\* the first of two items was answered 429 and the invocation has ended
\* after the freshness upsert
C6_Witness ==
    \E p \in Invocations :
        /\ inv[p].pc = "done"
        /\ inv[p].brk = 1
        /\ Len(inv[p].cards) = 2
        /\ inv[p].calls = {1}
        /\ inv[p].marked

\* C7: with a fixed catalog and marketplace, a scan of a real user's wishlist
\* that follows a scan of the same wishlist whose write-backs all succeeded
\* attempts no write-back.
C7_SecondScanWritesNothing ==
    \A p \in Invocations :
        (/\ inv[p].pc \in {"loop", "mark"}
         /\ inv[p].user \in Users
         /\ prev[inv[p].user] = "clean")
            => inv[p].wb = {}

\* C8: an item whose catalog lookup has zero results gets no marketplace
\* call; a write-back is attempted exactly when its stock is not false or its
\* price or its catalog id is present, and sets stock false, price null and
\* catalog id null; the loop then goes on to the next item (to the freshness
\* upsert after the last one).
C8_NotFoundClearsOnChange ==
    [][\A p \in Invocations :
          (LoopStep(p) /\ inv'[p].last.res.kind = "none") =>
              LET s == inv[p]
                  card == s.cards[s.i].row
                  l == inv'[p].last
              IN  /\ ~l.called
                  /\ l.attempted <=> (\/ card.stock # "False"
                                      \/ card.price # NoVal
                                      \/ card.cid # NoVal)
                  /\ l.attempted => /\ l.entity.stock = "False"
                                    /\ IsNull(l.entity.price)
                                    /\ IsNull(l.entity.cid)
                  /\ inv'[p].pc = IF s.i < Len(s.cards) THEN "loop" ELSE "mark"
                  /\ inv'[p].pc = "loop" => inv'[p].i = s.i + 1]_vars

\* an in-stock row of a real user was found to have no catalog entry and the
\* clearing write-back succeeded
C8_Witness ==
    \E p \in Invocations :
        /\ inv[p].user \in Users
        /\ inv[p].last.path = "notfound"
        /\ inv[p].last.wok
        /\ inv[p].cards[inv[p].last.idx].row.stock = "True"

\* C9: every stored wishlist row of a real user without a catalog id has
\* stock false and no price.
C9_NoCatalogIdNoStock ==
    \A u \in Users : \A k \in DOMAIN store[u] :
        store[u][k].cid = NoVal =>
            store[u][k].stock = "False" /\ store[u][k].price = NoVal

\* a row that had a catalog id lost it to a not-found write-back
C9_Witness ==
    \E p \in Invocations :
        LET s == inv[p]
        IN  /\ s.user \in Users
            /\ s.last.path = "notfound"
            /\ s.last.wok
            /\ s.cards[s.last.idx].row.cid # NoVal
            /\ store[s.user][s.cards[s.last.idx].key].cid = NoVal

\* C10: after a response is interpreted, a write-back is attempted exactly
\* when the fetched stock, price or resolved catalog id differs from the
\* item's stored stock, price or catalog id.
C10_WriteBackOnAnyDifference ==
    [][\A p \in Invocations :
          (LoopStep(p) /\ inv'[p].last.path = "compared") =>
              LET card == inv[p].cards[inv[p].i].row
                  l == inv'[p].last
                  fetched == ParseResponse(l.resp)
              IN  l.attempted <=> (\/ GetStock(card.stock) # fetched.stock
                                   \/ Get(card.price) # fetched.price
                                   \/ Get(card.cid) # l.res.id)]_vars

(***************************************************************************)
(* Every kind of marketplace response, on a small store.                   *)
(***************************************************************************)
RespStores ==
    { ("u1" :> w) @@ ("u2" :> <<>>) @@ (TIMESTAMPS_TABLE_NAME :> t) :
        w \in { ("a" :> AddedRow("str")) @@ ("b" :> AddedRow("str")),
                ("a" :> InStockRow) @@ ("b" :> AddedRow("str")) },
        t \in { TimestampTable(NoTs, RecentTs, RecentTs) } }

InitResp ==
    /\ InitCommon
    /\ store \in RespStores
    /\ config \in Configs
    /\ overlap = FALSE
    /\ world = FreeWorld(Responses)

SpecResp == InitResp /\ [][Next]_vars

(***************************************************************************)
(* Interpretation of the marketplace response.                             *)
(***************************************************************************)
\* C11: for a 200 response that decodes and whose listing collection is not
\* empty, the item is reported in stock, and its price is the smallest of the
\* price_cents present among the listings.
C11_InStockWithMinPrice ==
    [][\A p \in Invocations :
          (/\ LoopStep(p)
           /\ inv'[p].last.path = "compared"
           /\ inv'[p].last.resp.status = 200
           /\ inv'[p].last.resp.json
           /\ Len(inv'[p].last.resp.items) > 0) =>
              LET l == inv'[p].last
                  present == {l.resp.items[i] : i \in DOMAIN l.resp.items} \ {NoVal}
              IN  /\ l.entity.stock = "True"
                  /\ present # {} => /\ l.entity.price \in present
                                     /\ \A q \in present : l.entity.price <= q]_vars

\* C12: a 404 response, like a 200 response with an empty or absent
\* collection, is interpreted as out of stock with no price and nothing is
\* raised: a write-back is attempted when the stored stock or price differs,
\* carrying stock false and a null price, and the loop goes on to the next
\* item (to the freshness upsert after the last one).
C12_NotFoundResponseIsOutOfStock ==
    [][\A p \in Invocations :
          (/\ LoopStep(p)
           /\ inv'[p].last.called
           /\ inv'[p].last.resp.kind = "response"
           /\ \/ inv'[p].last.resp.status = 404
              \/ /\ inv'[p].last.resp.status = 200
                 /\ inv'[p].last.resp.json
                 /\ inv'[p].last.resp.items = <<>>) =>
              LET s == inv[p]
                  card == s.cards[s.i].row
                  l == inv'[p].last
              IN  /\ l.path = "compared"
                  /\ l.entity.stock = "False"
                  /\ IsNull(l.entity.price)
                  /\ (card.stock # "False" \/ card.price # NoVal) => l.attempted
                  /\ ~inv'[p].raised
                  /\ inv'[p].pc = IF s.i < Len(s.cards) THEN "loop" ELSE "mark"
                  /\ inv'[p].pc = "loop" => inv'[p].i = s.i + 1]_vars

\* a 404 for the first item, stored in stock, was written back as out of
\* stock and the loop went on to the second item
C12_Witness ==
    \E p \in Invocations :
        /\ inv[p].pc = "loop"
        /\ inv[p].i = 2
        /\ inv[p].last.idx = 1
        /\ inv[p].last.resp.status = 404
        /\ inv[p].last.called
        /\ inv[p].last.wok
        /\ inv[p].cards[1].row.stock = "True"

(***************************************************************************)
(* Overlapping invocations: the timer fires again while an invocation is   *)
(* still running, and time passes during a run.                            *)
(***************************************************************************)
OverlapStores ==
    { ("u1" :> ("a" :> InStockRow)) @@ ("u2" :> <<>>)
        @@ (TIMESTAMPS_TABLE_NAME :> t) :
        t \in { TimestampTable(OldTs, NoTs, RecentTs) } }

InitOverlap ==
    /\ InitCommon
    /\ store \in OverlapStores
    /\ config \in Configs
    /\ overlap = TRUE
    /\ world = FreeWorld({ Response(200, TRUE, <<>>) })

SpecOverlap == InitOverlap /\ [][Next]_vars

(***************************************************************************)
(* The freshness records.                                                  *)
(***************************************************************************)
\* C13: no step makes the stored, parseable freshness timestamp of a user
\* smaller, or unparseable.
C13_TimestampNeverDecreases ==
    [][\A u \in UserIds :
          LET old == UserTimestamp(store[TIMESTAMPS_TABLE_NAME], u)
              new == UserTimestamp(store'[TIMESTAMPS_TABLE_NAME], u)
          IN  old.ok => new.ok /\ new.t >= old.t]_vars

(***************************************************************************)
(* The invocation's own clock: a request takes half a second or two.       *)
(***************************************************************************)
Durations == {5, 20}

InitRate ==
    /\ clock = 0
    /\ elapsed = Durations
    /\ mergeNull \in {"ignore", "clear"}
    /\ prev = [u \in UserIds |-> "none"]
    /\ inv = [p \in Invocations |-> Idle]
    /\ store \in RespStores
    /\ config \in Configs
    /\ overlap = FALSE
    /\ world = FreeWorld({ Response(200, TRUE, <<>>), Response(200, TRUE, <<500, 300>>),
                           Response(500, FALSE, <<>>), NetworkError })

SpecRate == InitRate /\ [][Next]_vars

\* C14: within an invocation a marketplace call starts at least
\* RATE_LIMIT_SECONDS after the start of the previous call, whether that call
\* returned a response or raised, and the first call is not delayed.
C14_CallsAreSpaced ==
    \A p \in Invocations :
        /\ inv[p].gap # NoVal => inv[p].gap >= RATE_LIMIT_SECONDS
        /\ Cardinality(inv[p].calls) = 1 => inv[p].waited = 0

\* C15: a tick that starts less than CHECK_INTERVAL_HOURS after the time a
\* tick wrote into a user's freshness record (now_utc.isoformat(), read back
\* as the same instant) does not select that user.
C15_WrittenTimestampHoldsForInterval ==
    \A p \in Invocations : \A u \in UserIds :
        (/\ Running(p)
         /\ u \in DOMAIN inv[p].snap
         /\ inv[p].snap[u].ts.fmt = "offset"
         /\ inv[p].now < inv[p].snap[u].ts.t + CHECK_INTERVAL_HOURS)
            => inv[p].user # u

\* a tick twelve hours after the tick that wrote a user's record has selected
\* another user
C15_Witness ==
    \E p \in Invocations : \E u \in Users :
        /\ inv[p].pc = "selected"
        /\ inv[p].now = ClockStep
        /\ u \in DOMAIN inv[p].snap
        /\ inv[p].snap[u].ts = isoformat(0)
        /\ inv[p].user # u

(***************************************************************************)
(* How an invocation ends.                                                 *)
(***************************************************************************)
\* C16: no invocation ends with an exception leaving main.
C16_NoExceptionEscapes ==
    \A p \in Invocations : ~inv[p].raised

\* C17: when the wishlist read for the selected user is empty, the invocation
\* goes straight to the freshness upsert: no marketplace call, no wishlist
\* write-back, no loop, and it does not end before the upsert.
C17_EmptyWishlistIsMarked ==
    \A p \in Invocations :
        (inv[p].rd # {} /\ inv[p].cards = <<>>) =>
            /\ inv[p].pc \in {"mark", "done"}
            /\ inv[p].calls = {}
            /\ inv[p].wb = {}
            /\ ~inv[p].looped
            /\ inv[p].pc = "done" => inv[p].marked

\* the empty wishlist of u2 was read without an API key configured and the
\* record of u2 was written
C17_Witness ==
    \E p \in Invocations :
        /\ inv[p].pc = "done"
        /\ inv[p].rd = {"u2"}
        /\ inv[p].cards = <<>>
        /\ ~config.key
        /\ inv[p].tsw = {"u2"}
        /\ store[TIMESTAMPS_TABLE_NAME]["u2"].ts = isoformat(inv[p].now)

\* C18: an invocation that selected a user and could not open or read its
\* table ends with the freshness upsert of that user done, and without a
\* marketplace call.
C18_MissingTableIsMarked ==
    \A p \in Invocations :
        (inv[p].pc = "done" /\ inv[p].user # NoUser /\ inv[p].rd = {}) =>
            inv[p].marked /\ inv[p].calls = {}

C20_MatchWithoutIdIsCleared ==
    [][\A p \in Invocations :
          (/\ LoopStep(p)
           /\ inv'[p].last.res.kind = "match"
           /\ inv'[p].last.res.id = 0) =>
              LET card == inv[p].cards[inv[p].i].row
                  l == inv'[p].last
              IN  /\ ~l.called
                  /\ l.attempted <=> (\/ card.stock # "False"
                                      \/ card.price # NoVal
                                      \/ card.cid # NoVal)]_vars

(***************************************************************************)
(* Failures of single items.                                               *)
(***************************************************************************)
\* C21: when the marketplace request for an item raises a network exception,
\* no write-back is attempted, the store is left as it is, nothing is raised
\* and the loop goes on to the next item (to the freshness upsert after the
\* last one).
C21_NetworkErrorSkipsItem ==
    [][\A p \in Invocations :
          (LoopStep(p) /\ inv'[p].last.resp.kind = "neterr" /\ inv[p].cards[inv[p].i].row.lang = "str") =>
              LET s == inv[p]
                  l == inv'[p].last
              IN  /\ l.called
                  /\ ~l.attempted
                  /\ store' = store
                  /\ ~inv'[p].raised
                  /\ inv'[p].pc = IF s.i < Len(s.cards) THEN "loop" ELSE "mark"
                  /\ inv'[p].pc = "loop" => inv'[p].i = s.i + 1]_vars

\* the request for the first item, stored in stock, raised a network error:
\* its row is as it was read and the loop is at the second item
C21_Witness ==
    \E p \in Invocations :
        /\ inv[p].pc = "loop"
        /\ inv[p].i = 2
        /\ inv[p].last.idx = 1
        /\ inv[p].last.path = "neterr"
        /\ inv[p].cards[1].row.stock = "True"
        /\ store[inv[p].user][inv[p].cards[1].key] = inv[p].cards[1].row

\* C22: a response with a status other than 200, 404 and 429, or a 200
\* response whose body does not decode, is interpreted as out of stock with
\* no price: a write-back is attempted when the stored stock or price
\* differs, carrying stock false and a null price, nothing is raised and the
\* loop goes on to the next item (to the freshness upsert after the last).
C22_ErrorResponseIsOutOfStock ==
    [][\A p \in Invocations :
          (/\ LoopStep(p)
           /\ inv'[p].last.called
           /\ inv'[p].last.resp.kind = "response"
           /\ \/ inv'[p].last.resp.status \notin {200, 404, 429}
              \/ inv'[p].last.resp.status = 200 /\ ~inv'[p].last.resp.json) =>
              LET s == inv[p]
                  card == s.cards[s.i].row
                  l == inv'[p].last
              IN  /\ l.path = "compared"
                  /\ l.entity.stock = "False"
                  /\ IsNull(l.entity.price)
                  /\ (card.stock # "False" \/ card.price # NoVal) => l.attempted
                  /\ ~inv'[p].raised
                  /\ inv'[p].pc = IF s.i < Len(s.cards) THEN "loop" ELSE "mark"
                  /\ inv'[p].pc = "loop" => inv'[p].i = s.i + 1]_vars

\* a 200 answer that does not decode for the first item, stored in stock, was
\* written back as out of stock and the loop went on
C22_Witness ==
    \E p \in Invocations :
        /\ inv[p].pc = "loop"
        /\ inv[p].i = 2
        /\ inv[p].last.idx = 1
        /\ inv[p].last.called
        /\ inv[p].last.resp = Response(200, FALSE, <<>>)
        /\ inv[p].last.wok
        /\ inv[p].cards[1].row.stock = "True"
        /\ store[inv[p].user][inv[p].cards[1].key].stock = "False"

\* C23: a loop that ended without a 429 has visited every item of the
\* wishlist snapshot.
C23_OnlyRateLimitStopsLoop ==
    \A p \in Invocations :
        (inv[p].looped /\ inv[p].pc \in {"mark", "done"} /\ inv[p].brk = 0)
            => inv[p].i = Len(inv[p].cards)

\* C24: with the connection string or the API key missing, an invocation
\* makes no marketplace call, no wishlist write-back and no freshness write.
C24_MissingCredentialNoWork ==
    \A p \in Invocations :
        (~config.conn \/ ~config.key) =>
            /\ inv[p].calls = {} /\ inv[p].wb = {}
            /\ inv[p].tsw = {} /\ ~inv[p].marked

\* C25: an invocation in which a storage operation before the loop failed
\* (the service, the table clients, the table listing, the read of the
\* timestamps table, or the listing of the selected user's rows) has ended
\* there: no freshness record and no wishlist row is written, no call made.
C25_StorageFailureEndsTick ==
    \A p \in Invocations :
        inv[p].err \in {"storage", "list"} =>
            /\ inv[p].pc = "done"
            /\ ~inv[p].marked
            /\ inv[p].tsw = {} /\ inv[p].wb = {} /\ inv[p].calls = {}

\* the listing of the selected real user's rows failed and the invocation
\* has ended, the timestamps table being as the tick read it
C25_Witness ==
    \E p \in Invocations :
        /\ inv[p].err = "list"
        /\ inv[p].pc = "done"
        /\ inv[p].user \in Users
        /\ store[TIMESTAMPS_TABLE_NAME] = inv[p].snap

\* C27: no invocation selects the timestamps table as the wishlist to scan,
\* reads it as one, or writes a freshness record of anything but a real user.
C27_TimestampsTableNotAUser ==
    \A p \in Invocations :
        /\ inv[p].user # TIMESTAMPS_TABLE_NAME
        /\ TIMESTAMPS_TABLE_NAME \notin inv[p].rd
        /\ inv[p].tsw \subseteq Users
        /\ inv[p].user = TIMESTAMPS_TABLE_NAME => inv[p].wb = {}

\* C29: when some enumerated user's timestamp is exactly the tick's start
\* minus CHECK_INTERVAL_HOURS, that user is eligible, so the tick selects a
\* user.
C29_ThresholdIsEligible ==
    \A p \in Invocations :
        (/\ Running(p)
         /\ inv[p].err = "none"
         /\ \E u \in UserIds :
              /\ UserTimestamp(inv[p].snap, u).ok
              /\ UserTimestamp(inv[p].snap, u).t = check_threshold(inv[p].now))
            => inv[p].user # NoUser

(***************************************************************************)
(* Another writer: between the ticks, or during a scan, something else     *)
(* rewrites the language property of a stored wishlist row.                *)
(***************************************************************************)
OtherWriter ==
    /\ \E u \in Users : \E k \in DOMAIN store[u] : \E lang \in {"str", "num"} :
          /\ store[u][k].lang # lang
          /\ store' = [store EXCEPT ![u][k].lang = lang]
    /\ UNCHANGED <<clock, config, mergeNull, overlap, world, elapsed, prev, inv>>

NextEdit == Next \/ OtherWriter

EditStores ==
    { ("u1" :> ("a" :> InStockRow)) @@ ("u2" :> <<>>)
        @@ (TIMESTAMPS_TABLE_NAME :> TimestampTable(NoTs, RecentTs, RecentTs)) }

InitEdit ==
    /\ InitCommon
    /\ store \in EditStores
    /\ config \in Configs
    /\ overlap = FALSE
    /\ world = FreeWorld({ Response(200, TRUE, <<>>), Response(200, TRUE, <<500, 300>>) })

SpecEdit == InitEdit /\ [][NextEdit]_vars

\* C26: a wishlist write-back leaves the language property of the row as it
\* is in storage at the moment of the write.
C26_WriteBackKeepsOtherFields ==
    [][\A p \in Invocations :
          (LoopStep(p) /\ inv'[p].last.wok /\ inv[p].user \in Users) =>
              LET u == inv[p].user
                  k == inv[p].cards[inv[p].i].key
              IN  store'[u][k].lang = store[u][k].lang]_vars

(***************************************************************************)
(* Overlapping invocations with a fixed catalog and marketplace.           *)
(***************************************************************************)
TwinRows == ("a" :> InStockRow) @@ ("b" :> AddedRow("str"))

TwinStores ==
    { ("u1" :> TwinRows) @@ ("u2" :> <<>>)
        @@ (TIMESTAMPS_TABLE_NAME :> TimestampTable(NoTs, RecentTs, RecentTs)) }

TwinWorlds ==
    { FixedWorld(("a" :> oa)
                 @@ ("b" :> Outcome(ResolverMatch(10), Response(200, TRUE, <<500, 300>>)))) :
        oa \in FixedOutcomes }

InitTwin ==
    /\ InitCommon
    /\ store \in TwinStores
    /\ config \in Configs
    /\ overlap = TRUE
    /\ world \in TwinWorlds

SpecTwin == InitTwin /\ [][Next]_vars

\* the rows one scan of TwinRows leaves when its write-backs succeed: row a
\* cleared, out of stock, at the new low price, or as it was when the
\* marketplace answered 429 (row b is then not reached)
SingleScanRows ==
    LET oa == world.of["a"]
        olda == TwinRows["a"]
        ra == IF oa.res.kind = "none"
              THEN (IF mergeNull = "ignore"
                    THEN [olda EXCEPT !.stock = "False"]
                    ELSE [olda EXCEPT !.stock = "False", !.price = NoVal, !.cid = NoVal])
              ELSE IF oa.resp.status = 429 THEN olda
              ELSE IF oa.resp.items = <<>>
              THEN (IF mergeNull = "ignore"
                    THEN [olda EXCEPT !.stock = "False"]
                    ELSE [olda EXCEPT !.stock = "False", !.price = NoVal])
              ELSE [olda EXCEPT !.stock = "True", !.price = 300]
        rb == IF oa.res.kind # "none" /\ oa.resp.status = 429
              THEN TwinRows["b"]
              ELSE Row(NoTs, "True", 300, 10, "str")
    IN  ("a" :> ra) @@ ("b" :> rb)

\* C28: when two invocations that overlapped have both scanned u1 under the
\* same fixed catalog and marketplace, and every write-back they attempted
\* succeeded, the stored rows of u1 are those a single scan leaves.
C28_OverlappingScansAgree ==
    (\A p \in Invocations :
        /\ inv[p].pc = "done"
        /\ inv[p].rd = {"u1"}
        /\ inv[p].looped
        /\ ~inv[p].failed)
      => store["u1"] = SingleScanRows

\* both invocations read the rows before either wrote, both wrote row a, and
\* both have ended
C28_Witness ==
    /\ \A p \in Invocations :
          /\ inv[p].pc = "done"
          /\ inv[p].looped
          /\ ~inv[p].failed
          /\ 1 \in inv[p].wb
          /\ inv[p].cards[1].row = TwinRows["a"]
    /\ store["u1"] = SingleScanRows

(***************************************************************************)
(* The timer keeps firing, one invocation at a time.                       *)
(***************************************************************************)
\* the steps of a tick whose connection, table clients and timestamps
\* listing work; the listing of the selected user's wishlist may fail
NextLive ==
    \/ \E p \in Invocations :
         \/ TickSelect(p)
         \/ ListFails(p)
         \/ ListCards(p)
         \/ ProcessItem(p)
         \/ Mark(p)
         \/ Return(p)
    \/ AdvanceClock

\* u1 was never checked, u2 was checked 36 hours ago
LiveStores ==
    { ("u1" :> ("a" :> InStockRow)) @@ ("u2" :> <<>>)
        @@ (TIMESTAMPS_TABLE_NAME :> TimestampTable(NoTs, OldTs, RecentTs)) }

InitLive ==
    /\ InitCommon
    /\ store \in LiveStores
    /\ config = [conn |-> TRUE, key |-> TRUE]
    /\ overlap = FALSE
    /\ world = FreeWorld({Response(200, TRUE, <<>>), Response(200, TRUE, <<500, 300>>)})

\* the schedule: a tick that can start or go on does so
SpecLive == InitLive /\ [][NextLive]_vars /\ WF_vars(NextLive)

\* C30: with ticks firing one after the other, a known user that is eligible
\* is eventually selected by a tick that writes its freshness record.
C30_NoStarvation ==
    \A u \in Users :
        IsEligible(store[TIMESTAMPS_TABLE_NAME], u, clock)
            ~> (\E p \in Invocations : inv[p].user = u /\ u \in inv[p].tsw)

====
